---- MODULE Spec2Model ----
(***************************************************************************)
(* Model of the Canvas rendering context (src/src/context.rs) and of the   *)
(* degree/radian helpers it uses (src/src/math.rs).                        *)
(*                                                                         *)
(* Numbers.  f32 coordinates, sizes and colour channels are modelled by    *)
(* integers (every value used is a small integer, for which f32 addition   *)
(* and subtraction are exact).  Angles in radians are fixed-point integers *)
(* in micro-radians: PI is 3141593 and the literals 180.0 and 360.0 of     *)
(* deg2rad_h are 180 * Micro and 360 * Micro.  Degrees are whole degrees.  *)
(* Index values stay far below 2^32, so the u32 additions never wrap.      *)
(*                                                                         *)
(* Matrices are kept symbolic: a matrix is the sequence of its primitive   *)
(* factors in multiplication order (A * B is A \o B).  sin, cos and        *)
(* cgmath::ortho are uninterpreted.                                        *)
(*                                                                         *)
(* The OpenGL backend is replaced by a recorder `gl` that counts the       *)
(* DrawElements calls and keeps the uniforms and buffer data of the last.  *)
(***************************************************************************)
EXTENDS Integers, Sequences, FiniteSets, TLC

VARIABLES
    vertices,          \* Context.vertices : Vec<Vert>
    elements,          \* Context.elements : Vec<u32>
    ortho_matrix,      \* Context.ortho_matrix
    transform,         \* Context.transform : ViewTransform
    gl,                \* recorder standing for the GL backend
    panicked,          \* a debug_assert! failed: the program has aborted
    debug_assertions,  \* build configuration: debug_assert! compiled in or not
    batch,             \* history: the pushes made since the last draw call
    drawn,             \* history: the pushes that made up the last draw call
    display_size,      \* history: the arguments of the last set_display_size
    contract_ok,       \* history: every push_verts so far met the caller contract
    last_op,           \* history: the last call and the state it started from
    frame,             \* history: bookkeeping of the current frame
    nops               \* number of calls made so far

vars == <<vertices, elements, ortho_matrix, transform, gl, panicked,
          debug_assertions, batch, drawn, display_size, contract_ok,
          last_op, frame, nops>>

----------------------------------------------------------------------------
(* Bounds and program constants *)

MaxOps == 4

\* Most rect calls in a run of consecutive rects
MaxRects == 45

\* Longest run of calls explored for the view transform
MaxViewOps == 4

MAX_VERTS == 40
MAX_ELEMS == 64

PI == 3141593
Micro == 1000 * 1000

----------------------------------------------------------------------------
(* math.rs *)

vec2f(x, y) == [x |-> x, y |-> y]

RED   == [r |-> 1, g |-> 0, b |-> 0, a |-> 1]
BLUE  == [r |-> 0, g |-> 0, b |-> 1, a |-> 1]
WHITE == [r |-> 1, g |-> 1, b |-> 1, a |-> 1]

DEG_TO_RAD == PI \div 180

deg2rad(deg) == deg * DEG_TO_RAD

deg2rad_h(deg) ==
    LET rad == deg2rad(deg)
    IN  IF rad > 180 * Micro THEN rad - 360 * Micro ELSE rad

Factor(op, a, b) == [op |-> op, a |-> a, b |-> b]

translate(dx, dy) == << Factor("translate", dx, dy) >>

rotation(theta) == << Factor("rotation", theta, 0) >>

Reverse(s) == [i \in 1..Len(s) |-> s[Len(s) + 1 - i]]

RECURSIVE Product(_)
Product(ms) == IF ms = <<>> THEN <<>> ELSE Head(ms) \o Product(Tail(ms))

\* Variant: the product taken in the order of the list.
merge_all_forward(transforms) == Product(transforms)

merge_all(transforms) == Product(Reverse(transforms))

ortho(left, right, bottom, top, near, far) ==
    << Factor("ortho", <<left, right, bottom>>, <<top, near, far>>) >>

(* The value of a matrix.  Entries and coordinates are fixed-point integers *)
(* in thousandths (Unit stands for 1.0); a matrix is indexed [row][column]. *)

Unit == 10 * 100

vec3f(x, y, z) == [x |-> x, y |-> y, z |-> z]

\* f32::sin on [0, pi/2], the angle in micro-radians, by its Taylor
\* polynomial of degree 7 evaluated in thousandths
SinQ(x) ==
    LET m  == (x + 500) \div 1000
        m2 == (m * m) \div 1000
        p3 == (m * m2) \div 1000
        p5 == (p3 * m2) \div 1000
        p7 == (p5 * m2) \div 1000
    IN  m - (m * m2) \div 6000 + (p3 * m2) \div 120000 - (p5 * m2) \div 5040000

sin(theta) ==
    LET t == theta % (2 * PI)
    IN  IF t <= PI \div 2 THEN SinQ(t)
        ELSE IF t <= PI THEN SinQ(PI - t)
        ELSE IF t <= PI + PI \div 2 THEN -SinQ(t - PI)
        ELSE -SinQ(2 * PI - t)

cos(theta) == sin(theta + PI \div 2)

\* cgmath's Matrix4::new takes the entries column by column
Matrix4_new(c0, c1, c2, c3) ==
    << <<c0[1], c1[1], c2[1], c3[1]>>,
       <<c0[2], c1[2], c2[2], c3[2]>>,
       <<c0[3], c1[3], c2[3], c3[3]>>,
       <<c0[4], c1[4], c2[4], c3[4]>> >>

identity ==
    Matrix4_new(<<Unit, 0, 0, 0>>, <<0, Unit, 0, 0>>, <<0, 0, Unit, 0>>, <<0, 0, 0, Unit>>)

\* The Matrix4 that translate and rotation build for a factor
Matrix4Of(f) ==
    CASE f.op = "translate" ->
           Matrix4_new(<<Unit, 0, 0, 0>>, <<0, Unit, 0, 0>>, <<0, 0, Unit, 0>>,
                       <<f.a * Unit, f.b * Unit, 0, Unit>>)
      [] f.op = "rotation" ->
           LET st == sin(f.a)
               ct == cos(f.a)
           IN  Matrix4_new(<<ct, st, 0, 0>>, <<-st, ct, 0, 0>>, <<0, 0, Unit, 0>>,
                           <<0, 0, 0, Unit>>)

\* Matrix4 * Matrix4
MulEntry(A, B, r, c) ==
    (A[r][1] * B[1][c] + A[r][2] * B[2][c] + A[r][3] * B[3][c] + A[r][4] * B[4][c])
        \div Unit

MulRow(A, B, r) ==
    <<MulEntry(A, B, r, 1), MulEntry(A, B, r, 2), MulEntry(A, B, r, 3), MulEntry(A, B, r, 4)>>

Mul(A, B) == <<MulRow(A, B, 1), MulRow(A, B, 2), MulRow(A, B, 3), MulRow(A, B, 4)>>

RECURSIVE MulAll(_, _)
MulAll(acc, m) == IF m = <<>> THEN acc ELSE MulAll(Mul(acc, Matrix4Of(Head(m))), Tail(m))

\* The Matrix4 a product of factors evaluates to
Value(m) == MulAll(identity, m)

apply3(t, v) ==
    LET e == <<v.x, v.y, v.z, Unit>>
        row(r) == (t[r][1] * e[1] + t[r][2] * e[2] + t[r][3] * e[3] + t[r][4] * e[4]) \div Unit
    IN  vec3f(row(1), row(2), row(3))

apply2(t, v) ==
    LET e == apply3(t, vec3f(v.x, v.y, Unit))
    IN  vec2f(e.x, e.y)

----------------------------------------------------------------------------
(* context.rs: ViewTransform, Vert *)

matrix(self) ==
    LET t0 == translate(-self.origin.x, -self.origin.y)
        t1 == rotation(self.rotation)
        t2 == translate(self.origin.x, self.origin.y)
    IN  merge_all(<<t0, t1, t2>>)

zero == [origin |-> vec2f(0, 0), rotation |-> 0]

with_rotation(self, rot) == [self EXCEPT !.rotation = rot]

\* Variant: the other field taken from zero() instead of self.
with_origin_from_zero(self, origin) == [origin |-> origin, rotation |-> 0]

with_origin(self, origin) == [self EXCEPT !.origin = origin]

VertPos_new(x, y) == [x |-> x, y |-> y]

VertCol_new(r, g, b, a) == [r |-> r, g |-> g, b |-> b, a |-> a]

with_pc(pos, col) == [pos |-> pos, col |-> col]

----------------------------------------------------------------------------
(* context.rs: Context.  The methods are functions from the Context (and   *)
(* the recorder) before the call to the Context after it.                  *)

Self == [vertices |-> vertices, elements |-> elements,
         ortho_matrix |-> ortho_matrix, transform |-> transform,
         gl |-> gl, panicked |-> panicked, debug |-> debug_assertions]

new == [vertices |-> <<>>, elements |-> <<>>,
        ortho_matrix |-> ortho(-1, 1, -1, 1, 0, 1), transform |-> zero]

\* Variant: the draw call sized to the vertex count instead of the index count.
DrawElements_vertex_count(self) ==
    [draw_count |-> self.gl.draw_count + 1,
     last_draw |-> << [count     |-> Len(self.vertices),
                       ProjMtx   |-> self.ortho_matrix,
                       Transform |-> matrix(self.transform),
                       vertices  |-> self.vertices,
                       elements  |-> self.elements] >>]

DrawElements(self) ==
    [draw_count |-> self.gl.draw_count + 1,
     last_draw |-> << [count     |-> Len(self.elements),
                       ProjMtx   |-> self.ortho_matrix,
                       Transform |-> matrix(self.transform),
                       vertices  |-> self.vertices,
                       elements  |-> self.elements] >>]

\* Variant: only the vertices cleared after the draw call.
flush_verts_keep_elements(self) ==
    IF Len(self.vertices) = 0 THEN self
    ELSE [self EXCEPT !.gl = DrawElements(self), !.vertices = <<>>]

\* Variant: the emptiness test of line 102 left out.
flush_verts_always(self) ==
    [self EXCEPT !.gl = DrawElements(self), !.vertices = <<>>, !.elements = <<>>]

flush_verts(self) ==
    IF Len(self.vertices) = 0 THEN self
    ELSE [self EXCEPT !.gl = DrawElements(self),
                      !.vertices = <<>>,
                      !.elements = <<>>]

has_vertices(self) == Len(self.vertices) > 0

\* Variant: the capacity test with >= in place of >.
WouldExceed_at_capacity(self, verts, elems) ==
    \/ Len(self.vertices) + Len(verts) >= MAX_VERTS
    \/ Len(self.elements) + Len(elems) >= MAX_ELEMS

WouldExceed(self, verts, elems) ==
    \/ Len(self.vertices) + Len(verts) > MAX_VERTS
    \/ Len(self.elements) + Len(elems) > MAX_ELEMS

\* Variant: push_verts flushing as soon as the push reaches the capacity.
push_verts_eager(self, verts, elems) ==
    LET s1 == IF WouldExceed_at_capacity(self, verts, elems) THEN flush_verts(self) ELSE self
        elem_delta == Len(s1.vertices)
    IN  [s1 EXCEPT !.vertices = @ \o verts,
                   !.elements = @ \o [i \in 1..Len(elems) |-> elems[i] + elem_delta]]

\* Position of the first element the assertion of line 96 rejects, or 0.
FirstBad(verts, elems) ==
    LET bad == {i \in 1..Len(elems) : ~(elems[i] < Len(verts))}
    IN  IF bad = {} THEN 0 ELSE CHOOSE i \in bad : \A j \in bad : i <= j

\* Variant: elem_delta read after the vertices of the call were appended.
push_verts_delta_after_append(self, verts, elems) ==
    LET s1 == IF WouldExceed(self, verts, elems) THEN flush_verts(self) ELSE self
        s2 == [s1 EXCEPT !.vertices = @ \o verts]
        elem_delta == Len(s2.vertices)
    IN  [s2 EXCEPT !.elements = @ \o [i \in 1..Len(elems) |-> elems[i] + elem_delta]]

\* Variant: elem_delta read before the capacity flush instead of after it.
push_verts_stale_delta(self, verts, elems) ==
    LET s1 == IF WouldExceed(self, verts, elems) THEN flush_verts(self) ELSE self
        elem_delta == Len(self.vertices)
    IN  [s1 EXCEPT !.vertices = @ \o verts,
                   !.elements = @ \o [i \in 1..Len(elems) |-> elems[i] + elem_delta]]

\* Variant: a full buffer is emptied without being drawn.
push_verts_discarding(self, verts, elems) ==
    LET s1 == IF WouldExceed(self, verts, elems)
              THEN [self EXCEPT !.vertices = <<>>, !.elements = <<>>]
              ELSE self
        elem_delta == Len(s1.vertices)
    IN  [s1 EXCEPT !.vertices = @ \o verts,
                   !.elements = @ \o [i \in 1..Len(elems) |-> elems[i] + elem_delta]]

push_verts(self, verts, elems) ==
    LET s1 == IF WouldExceed(self, verts, elems) THEN flush_verts(self) ELSE self
    IN  IF self.debug /\ Len(elems) % 3 # 0
        THEN [s1 EXCEPT !.panicked = TRUE]
        ELSE
          LET elem_delta == Len(s1.vertices)
              s2  == [s1 EXCEPT !.vertices = @ \o verts]
              bad == IF self.debug THEN FirstBad(verts, elems) ELSE 0
              n   == IF bad = 0 THEN Len(elems) ELSE bad - 1
          IN  [s2 EXCEPT !.elements = @ \o [i \in 1..n |-> elems[i] + elem_delta],
                         !.panicked = (bad # 0)]

\* Variant: the bottom edge at y + h instead of y - h.
rect_y_plus_h(self, color, x, y, width, height) ==
    LET vcol == VertCol_new(color.r, color.g, color.b, color.a)
    IN  push_verts(self,
                   << with_pc(VertPos_new(x, y), vcol),
                      with_pc(VertPos_new(x + width, y), vcol),
                      with_pc(VertPos_new(x, y + height), vcol),
                      with_pc(VertPos_new(x + width, y + height), vcol) >>,
                   <<0, 1, 2, 2, 3, 1>>)

rect(self, color, x, y, width, height) ==
    LET w == width
        h == height
        vcol == VertCol_new(color.r, color.g, color.b, color.a)
        tl == with_pc(VertPos_new(x, y), vcol)
        tr == with_pc(VertPos_new(x + w, y), vcol)
        bl == with_pc(VertPos_new(x, y - h), vcol)
        br == with_pc(VertPos_new(x + w, y - h), vcol)
    IN  push_verts(self, <<tl, tr, bl, br>>, <<0, 1, 2, 2, 3, 1>>)

\* Variant: the batch flushed before the projection changes.
set_display_size_flushing(self, width, height) ==
    [flush_verts(self) EXCEPT !.ortho_matrix = ortho(0, width, height, 0, -1, 1)]

set_display_size(self, width, height) ==
    [self EXCEPT !.ortho_matrix = ortho(0, width, height, 0, -1, 1)]

\* Variant: the flush of lines 175-177 left out.
set_transform_no_flush(self, t) == [self EXCEPT !.transform = t]

\* Variant: the flush skipped when the new transform equals the current one.
set_transform_skip_same(self, t) ==
    LET s1 == IF has_vertices(self) /\ t # self.transform THEN flush_verts(self) ELSE self
    IN  [s1 EXCEPT !.transform = t]

set_transform(self, t) ==
    LET s1 == IF has_vertices(self) THEN flush_verts(self) ELSE self
    IN  [s1 EXCEPT !.transform = t]

set_origin(self, ox, oy) ==
    set_transform(self, with_origin(self.transform, vec2f(ox, oy)))

set_rotation(self, rot) ==
    set_transform(self, with_rotation(self.transform, rot))

set_rotation_deg(self, rotation_deg) ==
    set_transform(self, with_rotation(self.transform, deg2rad_h(rotation_deg)))

----------------------------------------------------------------------------
(* Inputs of the calls *)

MkVerts(n) == [i \in 1..n |-> with_pc(VertPos_new(i, 0), VertCol_new(1, 1, 1, 1))]

\* k triangles over the vertices 0, 1, 2 of the same call
Tris(k) == [i \in 1..(3 * k) |-> (i - 1) % 3]

PushInputs ==
    { <<MkVerts(3), Tris(1)>>,                      \* one triangle
      <<MkVerts(20), Tris(11)>>,                    \* half of MAX_VERTS, over half of MAX_ELEMS
      <<MkVerts(MAX_VERTS + 1), Tris(1)>>,          \* more vertices than the capacity
      <<MkVerts(3), Tris(MAX_ELEMS \div 3 + 1)>>,   \* more indices than the capacity
      <<MkVerts(3), <<0, 1>>>>,                     \* index count not a multiple of 3
      <<MkVerts(3), <<0, 1, 3>>>>,                  \* index out of range
      <<MkVerts(0), Tris(10)>> }                    \* indices without vertices

RectInputs == { <<RED, 10, 20, 4, 6>>, <<BLUE, 0, 0, 64, 64>> }

OriginInputs == { <<320, 240>> }

RotationInputs == { 0, PI \div 2 }

\* a quarter turn, the same with one more turn, and 30 turns (whose radian
\* value exceeds the 180.0 of deg2rad_h)
DegInputs == { 90, 450, 10800 }

SizeInputs == { <<640, 480>>, <<800, 600>> }

\* The caller contract of push_verts (context.rs 87, 96)
ViewOrigins == { <<320, 240>>, <<5, -7>> }

ViewRotations == { 0, PI \div 2, PI \div 6 }

ViewDegrees == { 135 }

Precondition(verts, elems) ==
    /\ Len(elems) % 3 = 0
    /\ \A i \in 1..Len(elems) : elems[i] < Len(verts)

----------------------------------------------------------------------------
(* History variables.  They are written by the calls below and read by no  *)
(* method of the Context.                                                  *)

FrameStart == [draws |-> 0, groups |-> 0, xfs |-> {}, prev |-> "start",
               cap |-> FALSE, ended |-> FALSE]

FrameBase == IF frame.ended THEN FrameStart ELSE frame

\* kind: "push" (with the pushed vertices and raw indices), "set" (a transform
\* setter), "size" or "flush"
Record(name, args, kind, verts, elems, s2) ==
    LET drew == s2.gl.draw_count # gl.draw_count
        pushes == IF kind = "push"
                  THEN << [nv |-> Len(verts), raw |-> elems,
                           xf |-> transform, pm |-> ortho_matrix] >>
                  ELSE <<>>
        fb == FrameBase
        shape == kind = "push" /\ Len(verts) > 0
    IN  /\ last_op' = [name |-> name, args |-> args, kind |-> kind,
                       verts |-> verts, elems |-> elems, nv |-> Len(vertices),
                       ne |-> Len(elements), draws |-> gl.draw_count]
        /\ batch' = (IF drew THEN <<>> ELSE batch) \o pushes
        /\ drawn' = IF drew THEN [pushes |-> batch, size |-> display_size] ELSE drawn
        /\ display_size' = IF kind = "size" THEN args ELSE display_size
        /\ contract_ok' = (contract_ok /\ (kind = "push" => Precondition(verts, elems)))
        /\ frame' = [draws  |-> fb.draws + (s2.gl.draw_count - gl.draw_count),
                     groups |-> IF shape /\ fb.prev # "push"
                                THEN fb.groups + 1 ELSE fb.groups,
                     xfs    |-> IF shape THEN fb.xfs \cup {transform} ELSE fb.xfs,
                     prev   |-> CASE shape -> "push"
                                  [] kind = "set" -> "set"
                                  [] OTHER -> fb.prev,
                     cap    |-> fb.cap \/ (kind = "push" /\ WouldExceed(Self, verts, elems)),
                     ended  |-> kind = "flush"]

Commit(s2) ==
    /\ vertices' = s2.vertices
    /\ elements' = s2.elements
    /\ ortho_matrix' = s2.ortho_matrix
    /\ transform' = s2.transform
    /\ gl' = s2.gl
    /\ panicked' = s2.panicked
    /\ UNCHANGED debug_assertions

\* One call of a method, in a run of at most `bound` calls
CallB(bound, name, args, kind, verts, elems, s2) ==
    /\ ~panicked
    /\ nops < bound
    /\ nops' = nops + 1
    /\ Commit(s2)
    /\ Record(name, args, kind, verts, elems, s2)

Call(name, args, kind, verts, elems, s2) ==
    CallB(MaxOps, name, args, kind, verts, elems, s2)

----------------------------------------------------------------------------
(* The state machine: one action per public method of Context *)

Init ==
    /\ vertices = new.vertices
    /\ elements = new.elements
    /\ ortho_matrix = new.ortho_matrix
    /\ transform = new.transform
    /\ gl = [draw_count |-> 0, last_draw |-> <<>>]
    /\ panicked = FALSE
    /\ debug_assertions \in BOOLEAN
    /\ batch = <<>>
    /\ drawn = [pushes |-> <<>>, size |-> <<>>]
    /\ display_size = <<>>
    /\ contract_ok = TRUE
    /\ last_op = [name |-> "new", args |-> <<>>, kind |-> "new", verts |-> <<>>,
                  elems |-> <<>>, nv |-> 0, ne |-> 0, draws |-> 0]
    /\ frame = FrameStart
    /\ nops = 0

PushVerts ==
    \E p \in PushInputs :
        Call("push_verts", p, "push", p[1], p[2], push_verts(Self, p[1], p[2]))

Rect ==
    \E a \in RectInputs :
        LET x == a[2]
            y == a[3]
            w == a[4]
            h == a[5]
            vcol == VertCol_new(a[1].r, a[1].g, a[1].b, a[1].a)
        IN  Call("rect", a, "push",
                 << with_pc(VertPos_new(x, y), vcol), with_pc(VertPos_new(x + w, y), vcol),
                    with_pc(VertPos_new(x, y - h), vcol), with_pc(VertPos_new(x + w, y - h), vcol) >>,
                 <<0, 1, 2, 2, 3, 1>>,
                 rect(Self, a[1], x, y, w, h))

FlushVerts ==
    Call("flush_verts", <<>>, "flush", <<>>, <<>>, flush_verts(Self))

SetDisplaySize ==
    \E a \in SizeInputs :
        Call("set_display_size", a, "size", <<>>, <<>>, set_display_size(Self, a[1], a[2]))

SetOrigin ==
    \E a \in OriginInputs :
        Call("set_origin", a, "set", <<>>, <<>>, set_origin(Self, a[1], a[2]))

SetRotation ==
    \E r \in RotationInputs :
        Call("set_rotation", <<r>>, "set", <<>>, <<>>, set_rotation(Self, r))

SetRotationDeg ==
    \E d \in DegInputs :
        Call("set_rotation_deg", <<d>>, "set", <<>>, <<>>, set_rotation_deg(Self, d))

Next ==
    \/ PushVerts
    \/ Rect
    \/ FlushVerts
    \/ SetDisplaySize
    \/ SetOrigin
    \/ SetRotation
    \/ SetRotationDeg

Spec == Init /\ [][Next]_vars

----------------------------------------------------------------------------
(* The view transform: runs that move the origin and turn the view around   *)
(* one triangle, over more origins and angles than the runs above           *)

ViewPush ==
    CallB(MaxViewOps, "push_verts", <<MkVerts(3), Tris(1)>>, "push", MkVerts(3), Tris(1),
          push_verts(Self, MkVerts(3), Tris(1)))

ViewFlush ==
    CallB(MaxViewOps, "flush_verts", <<>>, "flush", <<>>, <<>>, flush_verts(Self))

ViewSetOrigin ==
    \E a \in ViewOrigins :
        CallB(MaxViewOps, "set_origin", a, "set", <<>>, <<>>, set_origin(Self, a[1], a[2]))

ViewSetRotation ==
    \E r \in ViewRotations :
        CallB(MaxViewOps, "set_rotation", <<r>>, "set", <<>>, <<>>, set_rotation(Self, r))

ViewSetRotationDeg ==
    \E d \in ViewDegrees :
        CallB(MaxViewOps, "set_rotation_deg", <<d>>, "set", <<>>, <<>>,
              set_rotation_deg(Self, d))

NextView ==
    \/ ViewPush
    \/ ViewFlush
    \/ ViewSetOrigin
    \/ ViewSetRotation
    \/ ViewSetRotationDeg

SpecView == Init /\ [][NextView]_vars

----------------------------------------------------------------------------
(* Consecutive rects: a new Context, rect calls with nothing between them,  *)
(* then one flush_verts                                                      *)

RectArgs == <<RED, 10, 20, 4, 6>>

RectRun ==
    /\ last_op.name \in {"new", "rect"}
    /\ LET a == RectArgs
           x == a[2]
           y == a[3]
           w == a[4]
           h == a[5]
           vcol == VertCol_new(a[1].r, a[1].g, a[1].b, a[1].a)
       IN  CallB(MaxRects, "rect", a, "push",
                 << with_pc(VertPos_new(x, y), vcol), with_pc(VertPos_new(x + w, y), vcol),
                    with_pc(VertPos_new(x, y - h), vcol), with_pc(VertPos_new(x + w, y - h), vcol) >>,
                 <<0, 1, 2, 2, 3, 1>>,
                 rect(Self, a[1], x, y, w, h))

FlushRun ==
    /\ last_op.name \in {"new", "rect"}
    /\ CallB(MaxRects + 1, "flush_verts", <<>>, "flush", <<>>, <<>>, flush_verts(Self))

NextRects ==
    \/ RectRun
    \/ FlushRun

SpecRects == Init /\ [][NextRects]_vars

----------------------------------------------------------------------------
(* Properties *)

RECURSIVE VertsOf(_)
\* number of vertices of a sequence of pushes
VertsOf(ps) == IF ps = <<>> THEN 0 ELSE Head(ps).nv + VertsOf(Tail(ps))

\* number of vertices pushed before the i-th push of ps
Offset(ps, i) == VertsOf(SubSeq(ps, 1, i - 1))

RECURSIVE Rebased(_, _)
\* the indices of the pushes ps, each push's raw indices moved by the number of
\* vertices of the pushes before it (base counts those before Head(ps))
Rebased(ps, base) ==
    IF ps = <<>> THEN <<>>
    ELSE [k \in 1..Len(Head(ps).raw) |-> Head(ps).raw[k] + base]
         \o Rebased(Tail(ps), base + Head(ps).nv)

LastDraw == gl.last_draw[1]

LastWouldExceed ==
    \/ last_op.nv + Len(last_op.verts) > MAX_VERTS
    \/ last_op.ne + Len(last_op.elems) > MAX_ELEMS

\* C1: transform isolation.  Every staged vertex was pushed under the current
\* transform, and the last draw call was issued with the matrix of the
\* transform under which each of its vertices was pushed; the staged and the
\* drawn vertices are exactly those of the recorded pushes.
C1_TransformIsolation ==
    /\ \A i \in 1..Len(batch) : batch[i].nv > 0 => batch[i].xf = transform
    /\ ~panicked => Len(vertices) = VertsOf(batch)
    /\ gl.draw_count > 0 =>
         /\ Len(LastDraw.vertices) = VertsOf(drawn.pushes)
         /\ \A i \in 1..Len(drawn.pushes) :
               drawn.pushes[i].nv > 0 => LastDraw.Transform = matrix(drawn.pushes[i].xf)

\* a batch was drawn under one transform and vertices are now staged under another
C1_Witness ==
    /\ gl.draw_count > 0
    /\ Len(vertices) > 0
    /\ \E i \in 1..Len(drawn.pushes) :
          drawn.pushes[i].nv > 0 /\ drawn.pushes[i].xf # transform

\* C2: capacity-triggered flush.  A push that would exceed MAX_VERTS or
\* MAX_ELEMS issues exactly one draw call and leaves in the buffer only the
\* vertices and indices of that push.
C2_CapacityFlush ==
    (last_op.kind = "push" /\ contract_ok /\ LastWouldExceed) =>
        /\ gl.draw_count = last_op.draws + 1
        /\ vertices = last_op.verts
        /\ elements = last_op.elems

\* C3: capacity bound.  The buffer never holds more than MAX_VERTS vertices
\* or more than MAX_ELEMS indices (stated for the runs in which every push met
\* the caller contract).
C3_CapacityBound ==
    contract_ok =>
        /\ Len(vertices) <= MAX_VERTS
        /\ Len(elements) <= MAX_ELEMS

\* C4: index rebasing.  The staged indices are the raw indices of the pushes
\* made since the last draw call, the i-th push's moved by the number of
\* vertices of the pushes before it, so an index that was in range of its own
\* push refers to a vertex of that push; a push that triggers the capacity
\* flush has its indices stored unmoved.
C4_IndexRebasing ==
    ~panicked =>
        /\ Len(vertices) = VertsOf(batch)
        /\ elements = Rebased(batch, 0)
        /\ \A i \in 1..Len(batch) : \A k \in 1..Len(batch[i].raw) :
              batch[i].raw[k] < batch[i].nv =>
                 LET pos == Len(Rebased(SubSeq(batch, 1, i - 1), 0)) + k
                 IN  /\ Offset(batch, i) <= elements[pos]
                     /\ elements[pos] < Offset(batch, i) + batch[i].nv
        /\ (last_op.kind = "push" /\ LastWouldExceed) =>
              SubSeq(elements, Len(elements) - Len(last_op.elems) + 1, Len(elements))
                 = last_op.elems

\* three pushes with vertices and indices are staged together
C4_Witness ==
    /\ ~panicked
    /\ Len(batch) >= 3
    /\ \A i \in 1..Len(batch) : batch[i].nv > 0 /\ Len(batch[i].raw) > 0

\* C5 as stated: at the end of a frame without a capacity flush the number of
\* draw calls equals the number of distinct transforms its shapes were pushed
\* under (stated for the runs in which every push met the caller contract).
C5_DrawsEqualDistinctTransforms ==
    (frame.ended /\ ~frame.cap /\ contract_ok) => frame.draws = Cardinality(frame.xfs)

\* C5 as amended: a transform setter called with vertices staged issues one
\* draw call; at the end of a frame without a capacity flush the number of
\* draw calls equals the number of runs of shapes that no transform setter
\* interrupts, which is at least the number of distinct transforms.
C5_DrawsEqualGroups ==
    /\ (last_op.kind = "set" /\ last_op.nv > 0) => gl.draw_count = last_op.draws + 1
    /\ (frame.ended /\ ~frame.cap) =>
          /\ frame.draws = frame.groups
          /\ frame.draws >= Cardinality(frame.xfs)

\* a frame of two runs of shapes under two transforms has ended
C5_Witness ==
    /\ frame.ended
    /\ ~frame.cap
    /\ frame.groups = 2
    /\ Cardinality(frame.xfs) = 2

\* C6: rotation canonicalization.  What set_rotation_deg(d) stored is what it
\* would store for any input that differs from d by a multiple of 360.
C6_RotationCanonical ==
    last_op.name = "set_rotation_deg" =>
        \A d \in DegInputs :
            (d - last_op.args[1]) % 360 = 0 =>
                set_rotation_deg(Self, d).transform.rotation = transform.rotation

\* C7: rotation range.  What set_rotation_deg stored lies in (-pi, pi].
C7_RotationRange ==
    last_op.name = "set_rotation_deg" =>
        /\ -PI < transform.rotation
        /\ transform.rotation <= PI

\* C8: idempotent flush.  flush_verts with no vertex staged issues no draw
\* call and changes neither the buffer nor the projection nor the transform;
\* two flush_verts calls in a row issue at most one draw call.
C8_IdempotentFlush ==
    [][ /\ (last_op'.name = "flush_verts" /\ nops' = nops + 1 /\ Len(vertices) = 0) =>
            /\ gl' = gl
            /\ vertices' = vertices
            /\ elements' = elements
            /\ ortho_matrix' = ortho_matrix
            /\ transform' = transform
        /\ (last_op.name = "flush_verts" /\ last_op'.name = "flush_verts"
              /\ nops' = nops + 1) =>
            gl'.draw_count <= last_op.draws + 1 ]_vars

\* flush_verts was called on an empty buffer after a draw call had been issued
C8_Witness ==
    /\ last_op.name = "flush_verts"
    /\ last_op.nv = 0
    /\ gl.draw_count > 0

Vertex(x, y, color) == [pos |-> [x |-> x, y |-> y], col |-> color]

\* C9: rect geometry.  rect appends the four corners in the order top-left,
\* top-right, bottom-left, bottom-right in the given colour, and the indices
\* 0,1,2,2,3,1 moved by the vertex count before the append.
C9_RectGeometry ==
    (last_op.name = "rect" /\ ~panicked) =>
        LET color == last_op.args[1]
            x == last_op.args[2]
            y == last_op.args[3]
            w == last_op.args[4]
            h == last_op.args[5]
            n == Len(vertices)
            m == Len(elements)
            base == n - 4
        IN  /\ n = (IF LastWouldExceed THEN 0 ELSE last_op.nv) + 4
            /\ m = (IF LastWouldExceed /\ last_op.nv > 0 THEN 0 ELSE last_op.ne) + 6
            /\ SubSeq(vertices, n - 3, n) =
                  << Vertex(x, y, color), Vertex(x + w, y, color),
                     Vertex(x, y - h, color), Vertex(x + w, y - h, color) >>
            /\ SubSeq(elements, m - 5, m) =
                  << base, base + 1, base + 2, base + 2, base + 3, base + 1 >>
            /\ last_op.args = <<RED, 10, 20, 4, 6>> =>
                  /\ vertices[n - 3].pos = [x |-> 10, y |-> 20]
                  /\ vertices[n - 2].pos = [x |-> 14, y |-> 20]
                  /\ vertices[n - 1].pos = [x |-> 10, y |-> 14]
                  /\ vertices[n].pos = [x |-> 14, y |-> 14]

\* rect(RED, 10, 20, 4, 6) was appended behind vertices already staged
C9_Witness ==
    /\ last_op.name = "rect"
    /\ last_op.args = <<RED, 10, 20, 4, 6>>
    /\ last_op.nv > 0
    /\ Len(vertices) = last_op.nv + 4

SizeProjection(size) ==
    IF size = <<>> THEN ortho(-1, 1, -1, 1, 0, 1)
    ELSE ortho(0, size[1], size[2], 0, -1, 1)

C10_DrawUsesLatestSize ==
    gl.draw_count > 0 =>
        /\ LastDraw.ProjMtx = SizeProjection(drawn.size)
        /\ Len(LastDraw.vertices) = VertsOf(drawn.pushes)

C10_OnlyProjectionChanges ==
    (last_op'.name = "set_display_size" /\ nops' = nops + 1) =>
        /\ ortho_matrix' = SizeProjection(last_op'.args)
        /\ gl' = gl
        /\ vertices' = vertices
        /\ elements' = elements
        /\ transform' = transform

\* C10: projection update independence.  set_display_size changes the
\* projection matrix and nothing else (no draw call, buffer and transform
\* untouched), and every draw call draws all the pushes made since the one
\* before it with the projection of the latest set_display_size.
C10_ProjectionIndependence ==
    []C10_DrawUsesLatestSize /\ [][C10_OnlyProjectionChanges]_vars

\* one draw call drew vertices pushed before and after a set_display_size
C10_Witness ==
    /\ gl.draw_count > 0
    /\ \E i, j \in 1..Len(drawn.pushes) :
          /\ drawn.pushes[i].nv > 0
          /\ drawn.pushes[j].nv > 0
          /\ drawn.pushes[i].pm # drawn.pushes[j].pm
    /\ LastDraw.ProjMtx = SizeProjection(drawn.size)

\* C11: flush of a non-empty buffer.  flush_verts with vertices staged (or,
\* when every push met the caller contract, with indices staged) issues exactly
\* one draw call, sized to the staged index count, with the current projection
\* matrix and the matrix of the current view transform as uniforms and the
\* staged vertices and indices as data, and leaves both sequences empty.
C11_FlushDrawsOnce ==
    [][ (/\ last_op'.name = "flush_verts"
         /\ nops' = nops + 1
         /\ (Len(vertices) > 0 \/ (contract_ok /\ Len(elements) > 0))) =>
            /\ gl'.draw_count = gl.draw_count + 1
            /\ gl'.last_draw[1].count = Len(elements)
            /\ gl'.last_draw[1].ProjMtx = ortho_matrix
            /\ gl'.last_draw[1].Transform = matrix(transform)
            /\ gl'.last_draw[1].vertices = vertices
            /\ gl'.last_draw[1].elements = elements
            /\ vertices' = <<>>
            /\ elements' = <<>>
            /\ ortho_matrix' = ortho_matrix
            /\ transform' = transform ]_vars

\* flush_verts drew a batch with indices under a projection and a transform
\* that differ from those of a new Context
C11_Witness ==
    /\ last_op.name = "flush_verts"
    /\ last_op.nv > 0
    /\ last_op.ne > 0
    /\ gl.draw_count = last_op.draws + 1
    /\ ortho_matrix # new.ortho_matrix
    /\ transform # zero

\* C12: draw calls come from flush_verts only.  A push that does not exceed
\* the capacity, a set_display_size and a transform setter called with no
\* vertex staged issue no draw call; any call issues at most one draw call,
\* and that draw call is the one flush_verts issues for the buffer, the
\* projection and the transform the call started from.
C12_DrawOnlyInFlush ==
    [][ /\ (last_op'.kind = "push" /\ ~WouldExceed(Self, last_op'.verts, last_op'.elems)) =>
              gl' = gl
        /\ last_op'.kind = "size" => gl' = gl
        /\ (last_op'.kind = "set" /\ Len(vertices) = 0) => gl' = gl
        /\ gl' # gl =>
              /\ Len(vertices) > 0
              /\ gl'.draw_count = gl.draw_count + 1
              /\ gl' = flush_verts(Self).gl ]_vars

\* a push within the capacity, a set_display_size and a setter on an empty
\* buffer were made without a draw call, then one flush_verts drew
C12_Witness ==
    /\ last_op.name = "flush_verts"
    /\ last_op.draws = 0
    /\ gl.draw_count = 1
    /\ nops = 4
    /\ display_size # <<>>
    /\ transform # zero

\* C13: index well-formedness.  While every push met the caller contract,
\* the number of staged indices is a multiple of 3 and every staged index is
\* less than the number of staged vertices; the last draw call was sized to
\* its index data, a multiple of 3, with every index in range of its vertices.
C13_IndexWellFormed ==
    contract_ok =>
        /\ Len(elements) % 3 = 0
        /\ \A i \in 1..Len(elements) : elements[i] < Len(vertices)
        /\ gl.draw_count > 0 =>
              /\ LastDraw.count = Len(LastDraw.elements)
              /\ LastDraw.count % 3 = 0
              /\ \A i \in 1..Len(LastDraw.elements) :
                    LastDraw.elements[i] < Len(LastDraw.vertices)

\* after a draw call with indices, two pushes with indices are staged
C13_Witness ==
    /\ contract_ok
    /\ gl.draw_count > 0
    /\ LastDraw.count > 0
    /\ Len(batch) >= 2
    /\ \A i \in 1..Len(batch) : Len(batch[i].raw) > 0

C14_NewTransformIsZero ==
    nops = 0 => transform = [origin |-> [x |-> 0, y |-> 0], rotation |-> 0]

C14_OneFieldReplaced ==
    /\ (last_op'.name = "set_origin" /\ nops' = nops + 1) =>
          /\ transform' = [origin   |-> [x |-> last_op'.args[1], y |-> last_op'.args[2]],
                           rotation |-> transform.rotation]
          /\ ortho_matrix' = ortho_matrix
    /\ (last_op'.name = "set_rotation" /\ nops' = nops + 1) =>
          /\ transform' = [origin |-> transform.origin, rotation |-> last_op'.args[1]]
          /\ ortho_matrix' = ortho_matrix
    /\ (last_op'.name = "set_rotation_deg" /\ nops' = nops + 1) =>
          /\ transform' = [origin   |-> transform.origin,
                           rotation |-> deg2rad_h(last_op'.args[1])]
          /\ ortho_matrix' = ortho_matrix

\* C14: one field replaced.  A new Context has origin (0,0) and rotation 0;
\* set_origin stores its arguments as the origin and keeps the rotation,
\* set_rotation and set_rotation_deg store the rotation and keep the origin,
\* and none of the three changes the projection matrix.
C14_SettersReplaceOneField ==
    []C14_NewTransformIsZero /\ [][C14_OneFieldReplaced]_vars

\* set_origin was called on a Context whose rotation had been set before
C14_Witness ==
    /\ last_op.name = "set_origin"
    /\ transform.rotation # 0
    /\ transform.origin # [x |-> 0, y |-> 0]
    /\ ortho_matrix # new.ortho_matrix

\* C15: caller-contract violation.  With debug assertions, a push whose index
\* count is not a multiple of 3 or that holds an index out of range of its own
\* vertices fails an assertion before it has issued a draw call or appended a
\* vertex or an index.
C15_RejectedBeforeEffect ==
    (/\ debug_assertions
     /\ last_op.kind = "push"
     /\ ~Precondition(last_op.verts, last_op.elems)) =>
        /\ panicked
        /\ gl.draw_count = last_op.draws
        /\ Len(vertices) = last_op.nv
        /\ Len(elements) = last_op.ne

\* C19: no orphaned indices.  While every push met the caller contract,
\* staged indices imply staged vertices, so a flush_verts or a transform
\* setter called with indices staged draws them and leaves none behind.
C19_NoOrphanedIndices ==
    contract_ok =>
        /\ Len(elements) > 0 => Len(vertices) > 0
        /\ (last_op.kind \in {"flush", "set"} /\ last_op.ne > 0) =>
              /\ gl.draw_count = last_op.draws + 1
              /\ LastDraw.count = last_op.ne
              /\ elements = <<>>

\* flush_verts was called with indices staged by pushes that met the contract
C19_Witness ==
    /\ contract_ok
    /\ last_op.name = "flush_verts"
    /\ last_op.ne > 0

\* a point with whole coordinates, in thousandths
Point(x, y) == vec2f(x * Unit, y * Unit)

TestPoints == { Point(0, 0), Point(1, 0), Point(0, 1), Point(330, 250) }

\* m maps the point `origin` of t to itself, is the identity when t has no
\* rotation, and moves a point as translate(-origin), then the rotation, then
\* translate(+origin) do one after the other
PivotsAbout(m, t) ==
    LET o  == Point(t.origin.x, t.origin.y)
        t0 == Value(translate(-t.origin.x, -t.origin.y))
        t1 == Value(rotation(t.rotation))
        t2 == Value(translate(t.origin.x, t.origin.y))
    IN  /\ apply2(m, o) = o
        /\ t.rotation = 0 => m = identity
        /\ \A p \in TestPoints \cup {o} :
              apply2(m, p) = apply2(t2, apply2(t1, apply2(t0, p)))

\* C16: rotation pivots about the origin.  The matrix of the current view
\* transform, and the Transform uniform of the last draw call for the
\* transform its vertices were pushed under, apply translate(-origin) first,
\* then the rotation, then translate(+origin): they map the origin to itself
\* and are the identity when the rotation is 0.
C16_PivotAboutOrigin ==
    /\ PivotsAbout(Value(matrix(transform)), transform)
    /\ gl.draw_count > 0 =>
          \A i \in 1..Len(drawn.pushes) :
              drawn.pushes[i].nv > 0 =>
                  PivotsAbout(Value(LastDraw.Transform), drawn.pushes[i].xf)

\* a batch was drawn under a quarter turn about the origin (320, 240)
C16_Witness ==
    /\ gl.draw_count > 0
    /\ LastDraw.Transform = matrix(transform)
    /\ transform.origin = vec2f(320, 240)
    /\ sin(transform.rotation) = Unit
    /\ apply2(Value(LastDraw.Transform), Point(321, 240)) = Point(320, 241)

\* the indices es moved by d
Shifted(es, d) == [i \in 1..Len(es) |-> es[i] + d]

\* the vertices and the indices handed to the draw call of a step, if any
StepDraws == gl'.draw_count - gl.draw_count

StepDrawnVerts == IF StepDraws > 0 THEN gl'.last_draw[1].vertices ELSE <<>>

StepDrawnElems == IF StepDraws > 0 THEN gl'.last_draw[1].elements ELSE <<>>

\* Every call hands on what it receives: the vertices drawn by the call
\* followed by the vertices left in the buffer are the vertices that were in
\* the buffer followed by the vertices the call pushed, and so are the
\* indices, counted from the first vertex that was in the buffer.
C17_StepConserves ==
    (contract_ok' /\ ~panicked') =>
        /\ StepDraws \in {0, 1}
        /\ StepDrawnVerts \o vertices' = vertices \o last_op'.verts
        /\ StepDrawnElems \o Shifted(elements', Len(StepDrawnVerts))
              = elements \o Shifted(last_op'.elems, Len(vertices))
        /\ Len(StepDrawnElems) % 3 = 0
        /\ last_op'.name = "flush_verts" => (vertices' = <<>> /\ elements' = <<>>)

\* C17: conservation and order.  In a run of calls that respect the
\* precondition of push_verts, the draw calls issued so far followed by the
\* buffer hold every pushed vertex and every pushed triangle once, in the
\* order of the pushes, and after flush_verts the buffer holds none: each
\* call conserves the vertices and the indices, so the draw calls of a run
\* ended by flush_verts, one after the other, are the pushes of the run.
C17_Conservation == [][C17_StepConserves]_vars

\* a run with two draw calls, the second by a closing flush_verts, whose
\* first draw call was forced by a full buffer
C17_Witness ==
    /\ contract_ok
    /\ ~panicked
    /\ last_op.name = "flush_verts"
    /\ gl.draw_count = 2
    /\ frame.cap
    /\ LastDraw.count > 0
    /\ vertices = <<>>

\* the number of rect calls of a run of consecutive rects
RectsSoFar == IF last_op.name = "flush_verts" THEN nops - 1 ELSE nops

\* C18: batch size for rects.  From an empty buffer, k consecutive rect calls
\* followed by one flush_verts issue ceil(k/10) draw calls; the first 10
\* rects issue none and the 11th issues the first, so after the k-th rect
\* floor((k-1)/10) draw calls were issued.
C18_RectBatches ==
    LET k == RectsSoFar
    IN  /\ last_op.name = "rect" =>
              /\ gl.draw_count = (k - 1) \div 10
              /\ k <= 10 => gl.draw_count = 0
              /\ k = 11 => (gl.draw_count = 1 /\ LastDraw.count = 60)
        /\ last_op.name = "flush_verts" => gl.draw_count = (k + 9) \div 10

\* 25 rects and the closing flush_verts: three draw calls
C18_Witness ==
    /\ last_op.name = "flush_verts"
    /\ RectsSoFar = 25
    /\ gl.draw_count = 3
    /\ LastDraw.count = 30

====
